---- MODULE Spec2Model ----
(***************************************************************************)
(* Model of deepthink-api.                                                 *)
(*                                                                         *)
(*   app/helpers/llm.py  the completion protocol: _raw_completion (retry   *)
(*                       on validation failure, tool round trip) and       *)
(*                       _execute_tool.                                    *)
(*   app/think.py        the orchestrator think(), the objective loop      *)
(*                       _run_objective and _should_stop_objective.        *)
(*   app/main.py         the streaming response: the producer task, the    *)
(*                       queue and _generator.                             *)
(*   app/helpers/cache.py  the decorators lru_cache and lru_acache.        *)
(*                                                                         *)
(* asyncio is cooperative: a coroutine runs without interruption from one  *)
(* await that suspends to the next, so one action of the model is the code *)
(* executed between two suspension points.                                 *)
(***************************************************************************)
EXTENDS Integers, Sequences, FiniteSets

VARIABLES
    \* ---- one completion request, app/helpers/llm.py ----
    c_pc,                \* "invoke" | "gather" | "returned" | "raised"
    existing_history,    \* parameter existing_history of the current frame
    tools,               \* parameter tools of the current frame (function names)
    previous_result,     \* parameter _previous_result
    retries_remaining,   \* parameter _retries_remaining
    validation_error,    \* parameter _validation_error
    validation_callback, \* "non_empty" | "typed": which _validate was passed
    local_history,       \* local_history of the frame suspended in gather
    tool_calls,          \* choice.message.tool_calls of the frame in gather
    tool_results,        \* per position: Pending, Raised or the tool message
    c_outcome,           \* returned value / raised exception of the request
    last_call,           \* the last model invocation: what was sent, and the frame
    invocations,         \* number of model invocations (acompletion calls)
    tool_rounds,         \* number of times the tool branch was entered
    request0,            \* the parameters the request was started with
    only_invalid,        \* every response so far: no tools, "stop", non-empty, invalid
    out_of_order,        \* a tool call ended while an earlier one was still awaited
    executions,          \* number of times a function was called (llm.py:408)
    last_response,       \* the response of the last model invocation
    \* ---- one run of think(), app/think.py ----
    o_pc,                \* think(): "start" | "poll" | "detect" | "answer" | "done" | "raised"
    objectives,          \* state.objectives: sequence of ObjectiveState
    tasks,               \* the jobs spawned on the scheduler: objective and position
    response,            \* the ChatCompletionResponse think() returns
    proposal_calls,      \* calls of _detect_new_objectives that ended, up to MaxRounds
    proposed,            \* what the proposal calls returned: first round, later rounds
    answer_calls,        \* number of calls of _answer_user made
    answer_context,      \* the knowledge lines of the prompt _answer_user sent
    dropped,             \* a proposed objective was not accepted (think.py:61-63)
    stop_checks,         \* per objective: number of calls of _should_stop_objective
    last_stop,           \* per objective: the last response to its should-stop check
    \* ---- shared by the run and its completion requests ----
    usage,               \* state.usage: the Usage every completion adds to
    counted,             \* the counts of the model invocations made, added up
    \* ---- one streaming request, app/main.py ----
    g_pc,                \* _generator: "none" | "get" | "yielded" | "closed"
    completions_queue,   \* the asyncio.Queue of chunks, oldest first
    think_task,          \* the producer task: "none" | "running" | "done" | "cancelled"
    emitted,             \* the chunks _generator yielded, in order
    enqueued,            \* the chunks put on the queue, in order
    \* ---- one decorated function, app/helpers/cache.py ----
    decorated,           \* "none" | "lru_cache" | "lru_acache": the decorator applied
    maxsize,             \* parameter maxsize of the decorator
    cache,               \* the OrderedDict: entries [key, value], first to last
    awaited,             \* calls of the wrapper suspended in `await func(...)`
    func_calls,          \* number of calls of the wrapped function
    wrapper_calls,       \* number of calls of the wrapper, and the key of the last one
    last_return,         \* what the wrapper returned last
    last_used            \* per key: when its entry was last stored or returned

c_vars == <<c_pc, existing_history, tools, previous_result, retries_remaining,
            validation_error, validation_callback, local_history, tool_calls,
            tool_results, c_outcome, last_call, invocations, tool_rounds,
            request0, only_invalid, out_of_order, executions, last_response>>

t_vars == <<o_pc, objectives, tasks, response, proposal_calls, proposed,
            answer_calls, answer_context, dropped, stop_checks, last_stop>>

s_vars == <<g_pc, completions_queue, think_task, emitted, enqueued>>

l_vars == <<decorated, maxsize, cache, awaited, func_calls, wrapper_calls,
            last_return, last_used>>

vars == <<c_vars, t_vars, usage, counted, s_vars, l_vars>>

-----------------------------------------------------------------------------
(* Bounds of the model. *)

\* calls of _detect_new_objectives that are counted: a run with a job that
\* raised can make any number of them
MaxRounds == 2
\* tasks one call of _detect_new_objectives returns (MAX_TASKS at most)
MaxProposed == 2

\* largest _retries_remaining a request is started with
MaxRetries == 2
\* responses with tool calls in one request of the retry protocol
MaxToolRounds == 2
\* model invocations of one request in the retry protocol
MaxInvocations == MaxRetries + MaxToolRounds + 1
\* tool calls per response in the tool execution scenario
MaxToolCalls == 6
\* largest value a counter of Usage is followed to: a larger one is kept as
\* MaxUsage
MaxUsage == 4
\* chunks put on the queue of one streaming request
MaxChunks == 4

-----------------------------------------------------------------------------
(* app/helpers/llm.py *)

MAX_SIMULTANEOUS_TOOLS == 5

\* Python's None
None == "None"

\* the functions think._new_step offers (think.py:361-369)
Functions == {"_knowledge_tool", "_wrapper"}

\* function names a tool call can carry: none, an offered one, an unknown one
CallNames == {None, "_knowledge_tool", "search"}

\* message contents a model response can carry ("" is the empty content)
Contents == {"", "ok", "bad1", "bad2"}

\* contents the typed validation (pydantic) accepts
WellFormed == {"ok"}

\* a text is a sequence of parts (an f-string is the sequence of its pieces)
Includes(text, part) == \E i \in 1..Len(text) : text[i] = part

Message(role, content, calls, id) ==
    [role |-> role, content |-> content, tool_calls |-> calls, tool_call_id |-> id]

\* the caller's prompt
System == "system prompt"

SystemMessage == Message("system", <<System>>, <<>>, None)

\* llm.py:90-100 and llm.py:135-177: does validation_callback accept the content
Valid(callback, content) ==
    IF content = "" THEN FALSE
    ELSE IF callback = "non_empty" THEN TRUE
    ELSE content \in WellFormed

\* str(e) of the ValidationException the callback raises on the content
ErrorText(callback, content) ==
    IF content = "" THEN "Empty response"
    ELSE IF content = "bad1" THEN "pydantic error 1"
    ELSE "pydantic error 2"

\* llm.py:241-248 mutated: the previous result is not put back in the history
LocalHistoryWithoutResult(history, prev, verr) ==
    IF verr # None /\ verr # ""
    THEN Append(history,
                Message("user",
                        <<"A validation error occurred, please retry: ", verr>>,
                        <<>>, None))
    ELSE history

\* llm.py:220-256: local_history of a frame before the model is invoked
LocalHistory(history, prev, verr) ==
    IF verr # None /\ verr # ""
    THEN (IF prev # None /\ prev # ""
          THEN Append(history, Message("assistant", <<prev>>, <<>>, None))
          ELSE history)
         \o <<Message("user",
                      <<"A validation error occurred, please retry: ", verr>>,
                      <<>>, None)>>
    ELSE history

\* the slot of one _execute_tool coroutine in gather: its function is being
\* awaited, it raised, or it returned its tool message
Pending == [status |-> "pending", message |-> Message("tool", <<>>, <<>>, None)]
Raised == [status |-> "raised", message |-> Message("tool", <<>>, <<>>, None)]

ToolMessage(content, call) ==
    [status |-> "returned", message |-> Message("tool", content, <<>>, call.id)]

\* llm.py:395, the concurrency limit mutated to an off-by-one comparison
TooManyOffByOne(position) == position > MAX_SIMULTANEOUS_TOOLS

\* llm.py:395 (position is 0-based, as enumerate gives it)
TooMany(position) == position >= MAX_SIMULTANEOUS_TOOLS

\* llm.py:386-392 mutated: a function that is not offered is not rejected
ExecuteToolAnyName(available_functions, position, call) ==
    IF call.name = None
    THEN ToolMessage(<<"No function name provided.">>, call)
    ELSE IF TooMany(position)
    THEN ToolMessage(<<"Too many tools called at once (limit is 5).">>, call)
    ELSE Pending

\* llm.py:377-400: the part of _execute_tool before the function is awaited;
\* Pending when the function is called
ExecuteTool(available_functions, position, call) ==
    IF call.name = None
    THEN ToolMessage(<<"No function name provided.">>, call)
    ELSE IF call.name \notin available_functions
    THEN ToolMessage(<<"Function '", call.name, "' not available.">>, call)
    ELSE IF TooMany(position)
    THEN ToolMessage(<<"Too many tools called at once (limit is 5).">>, call)
    ELSE Pending

\* tool_call.id of the call at a position of the list
CallIds == <<"call_1", "call_2", "call_3", "call_4", "call_5", "call_6",
             "call_7", "call_8", "call_9">>

\* the tool-call lists of at most n calls
RECURSIVE CallLists(_)
CallLists(n) ==
    IF n = 0 THEN {<<>>}
    ELSE LET shorter == CallLists(n - 1)
         IN  shorter \cup
             {Append(l, [id |-> CallIds[Len(l) + 1], name |-> nm]) :
                 l \in {s \in shorter : Len(s) = n - 1}, nm \in CallNames}

\* the responses of the model: choices[0] of acompletion's result
\* (a response with tool calls has no content and finish reason "tool_calls")
Responses(lists) ==
    [tool_calls : {<<>>}, finish_reason : {"stop", "length"}, content : Contents]
    \cup [tool_calls : lists \ {<<>>}, finish_reason : {"tool_calls"},
          content : {""}]

\* the tool-call lists of the responses in the retry protocol
RetryCallLists ==
    {<<[id |-> CallIds[1], name |-> "_knowledge_tool"]>>,
     <<[id |-> CallIds[1], name |-> None]>>,
     <<[id |-> CallIds[1], name |-> "_knowledge_tool"],
       [id |-> CallIds[2], name |-> "search"]>>}

ResponseMessage(res) == Message("assistant", <<res.content>>, res.tool_calls, None)

FrameOf(sent) ==
    [sent |-> sent, previous_result |-> previous_result,
     validation_error |-> validation_error, tools |-> tools,
     retries_remaining |-> retries_remaining, existing_history |-> existing_history]

\* token_counter (litellm): the counts of the texts, which are never empty
TokenCounts == {1, 2}

\* llm.py:278-285 mutated: the counters are assigned, not incremented
AddTokensAssigned(u, prompt, completion) ==
    [prompt_tokens |-> prompt, completion_tokens |-> completion]

\* llm.py:278-285 mutated: the prompt counter is not incremented
AddTokensCompletionOnly(u, prompt, completion) ==
    [prompt_tokens |-> u.prompt_tokens,
     completion_tokens |->
         IF u.completion_tokens + completion > MaxUsage THEN MaxUsage
         ELSE u.completion_tokens + completion]

\* llm.py:278-285: both counters of the shared Usage are incremented
AddTokens(u, prompt, completion) ==
    [prompt_tokens |->
         IF u.prompt_tokens + prompt > MaxUsage THEN MaxUsage
         ELSE u.prompt_tokens + prompt,
     completion_tokens |->
         IF u.completion_tokens + completion > MaxUsage THEN MaxUsage
         ELSE u.completion_tokens + completion]

\* the counts of one more invocation added to the counts added up so far
\* (followed to MaxUsage, as the counters are)
CountedWith(sum, prompt, completion) ==
    [prompt_tokens |->
         IF sum.prompt_tokens + prompt > MaxUsage THEN MaxUsage
         ELSE sum.prompt_tokens + prompt,
     completion_tokens |->
         IF sum.completion_tokens + completion > MaxUsage THEN MaxUsage
         ELSE sum.completion_tokens + completion]

\* llm.py:264-285: the model was invoked; the text of the messages sent and
\* the text of the response message are never empty, so both counts are positive
Invoked ==
    /\ usage' \in {AddTokens(usage, prompt, completion) :
                      prompt \in TokenCounts, completion \in TokenCounts}
    /\ counted' \in
           {CountedWith(counted, count.prompt, count.completion) :
               count \in {c \in [prompt : TokenCounts, completion : TokenCounts] :
                             usage' = AddTokens(usage, c.prompt, c.completion)}}

\* llm.py:264-285: a completion request of think(), of a job or of a tool has
\* ended: it invoked the model once at least, so it added a positive count
\* to both counters of state.usage
RequestCounted == Invoked

\* llm.py:327-331 mutated: the finish reason is not checked
TruncatedNever(finish_reason) == FALSE

\* llm.py:327-328: the response did not finish correctly
Truncated(finish_reason) == finish_reason # "stop"

\* llm.py:334-336 mutated: an empty content is left to the validation
NoContentNever(content) == FALSE

\* llm.py:334-335: `not content`
NoContent(content) == content = ""

\* llm.py:347 mutated: one retry too many
NoRetriesLeftOffByOne(retries) == retries < 0

\* llm.py:347
NoRetriesLeft(retries) == retries = 0

Raise(exception) ==
    /\ c_pc' = "raised"
    /\ c_outcome' = exception
    /\ UNCHANGED <<existing_history, tools, previous_result, retries_remaining,
                   validation_error, local_history, tool_calls, tool_results,
                   tool_rounds, executions>>

\* llm.py:201-369: one frame of _raw_completion, from its entry to its next
\* suspension (the gather of the tool branch), its return, its raise or the
\* entry of the retry frame; res is the model's response
RawCompletion(res) ==
    /\ c_pc = "invoke"
    /\ LET local == LocalHistory(existing_history, previous_result, validation_error)
           sent == <<SystemMessage>> \o local
       IN
       /\ last_call' = FrameOf(sent)
       /\ invocations' = invocations + 1
       /\ last_response' = res
       /\ Invoked
       /\ only_invalid' = (/\ only_invalid
                           /\ res.tool_calls = <<>>
                           /\ res.finish_reason = "stop"
                           /\ res.content # ""
                           /\ ~Valid(validation_callback, res.content))
       /\ UNCHANGED <<validation_callback, request0, out_of_order, t_vars, s_vars, l_vars>>
       /\ IF res.tool_calls # <<>>
          THEN \* llm.py:289-308
               /\ c_pc' = "gather"
               /\ local_history' = Append(local, ResponseMessage(res))
               /\ tool_calls' = res.tool_calls
               /\ tool_results' =
                      [i \in 1..Len(res.tool_calls) |->
                          ExecuteTool(tools, i - 1, res.tool_calls[i])]
               /\ tool_rounds' = tool_rounds + 1
               /\ executions' = executions + Cardinality(
                      {i \in 1..Len(res.tool_calls) :
                          ExecuteTool(tools, i - 1, res.tool_calls[i]) = Pending})
               /\ UNCHANGED <<existing_history, tools, previous_result,
                              retries_remaining, validation_error, c_outcome>>
          ELSE IF Truncated(res.finish_reason)
          THEN Raise("CompletionException")                   \* llm.py:327-331
          ELSE IF NoContent(res.content)
          THEN Raise("CompletionException")                   \* llm.py:334-336
          ELSE IF Valid(validation_callback, res.content)
          THEN \* llm.py:339-340
               /\ c_pc' = "returned"
               /\ c_outcome' = res.content
               /\ UNCHANGED <<existing_history, tools, previous_result,
                              retries_remaining, validation_error, local_history,
                              tool_calls, tool_results, tool_rounds,
                              executions>>
          ELSE IF NoRetriesLeft(retries_remaining)
          THEN Raise("CompletionException")                   \* llm.py:347-350
          ELSE \* llm.py:356-369
               /\ c_pc' = "invoke"
               /\ existing_history' = local
               /\ previous_result' = res.content
               /\ retries_remaining' = retries_remaining - 1
               /\ validation_error' = ErrorText(validation_callback, res.content)
               /\ UNCHANGED <<tools, local_history, tool_calls, tool_results,
                              c_outcome, tool_rounds, executions>>

\* llm.py:402-423: the awaited function of the call at position i ends:
\* it returns its response, the call raised TypeError, or it raised another
\* exception (loads() on malformed arguments, a fault of the function);
\* llm.py:454-485: _wrapper returns the synthesis of a page, which it got from
\* a completion request of its own on the same Usage
ToolReturns(i, how) ==
    /\ c_pc \in {"gather", "raised"}
    /\ i \in DOMAIN tool_results
    /\ tool_results[i] = Pending
    /\ IF how = "synthesis"
       THEN tool_calls[i].name = "_wrapper" /\ RequestCounted
       ELSE UNCHANGED <<usage, counted>>
    /\ IF how = "raise"
       THEN /\ tool_results' = [tool_results EXCEPT ![i] = Raised]
            /\ c_pc' = "raised"
            /\ c_outcome' = IF c_pc = "raised" THEN c_outcome ELSE "Exception"
       ELSE /\ tool_results' =
                 [tool_results EXCEPT
                    ![i] = IF how = "TypeError"
                           THEN ToolMessage(<<"Bad arguments: ", "TypeError">>,
                                            tool_calls[i])
                           ELSE ToolMessage(<<"function response">>, tool_calls[i])]
            /\ UNCHANGED <<c_pc, c_outcome>>
    /\ out_of_order' = (out_of_order \/ \E j \in 1..(i - 1) : tool_results[j] = Pending)
    /\ UNCHANGED <<existing_history, tools, previous_result, retries_remaining,
                   validation_error, validation_callback, local_history,
                   tool_calls, last_call, invocations, tool_rounds, request0,
                   only_invalid, executions, last_response, t_vars, s_vars, l_vars>>

\* llm.py:297-308 mutated: the results are taken last call first
GatheredReversed(results) ==
    [i \in DOMAIN results |-> results[Len(results) + 1 - i].message]

\* llm.py:297-308: asyncio.gather gives the results in the order of the
\* awaitables it was given, which is the order of the calls
Gathered(results) == [i \in DOMAIN results |-> results[i].message]

\* llm.py:317 mutated: the follow-up is given the tools again
FollowUpToolsKept(offered) == offered

\* llm.py:317: tools=[] for the follow-up, whatever was offered
FollowUpTools(offered) == {}

\* llm.py:297-324: gather resolves with the results in the order of the calls,
\* and the completion is run again on the extended history, without tools
GatherDone ==
    /\ c_pc = "gather"
    /\ \A i \in DOMAIN tool_results : tool_results[i].status = "returned"
    /\ c_pc' = "invoke"
    /\ existing_history' = local_history \o Gathered(tool_results)
    /\ tools' = FollowUpTools(tools)
    /\ local_history' = <<>>
    /\ tool_calls' = <<>>
    /\ tool_results' = <<>>
    /\ UNCHANGED <<previous_result, retries_remaining, validation_error,
                   validation_callback, c_outcome, last_call, invocations,
                   tool_rounds, request0, only_invalid, out_of_order, executions,
                   last_response, t_vars, usage, counted, s_vars, l_vars>>

\* a request as non_empty_completion / validated_completion start it
\* (llm.py:103-113, llm.py:188-198), with n retries
InitCompletion(history, offered, callback, n) ==
    /\ c_pc = "invoke"
    /\ existing_history = history
    /\ tools = offered
    /\ previous_result = None
    /\ retries_remaining = n
    /\ validation_error = None
    /\ validation_callback = callback
    /\ local_history = <<>>
    /\ tool_calls = <<>>
    /\ tool_results = <<>>
    /\ c_outcome = None
    /\ last_call = [sent |-> <<>>, previous_result |-> None,
                    validation_error |-> None, tools |-> offered,
                    retries_remaining |-> n, existing_history |-> history]
    /\ invocations = 0
    /\ tool_rounds = 0
    /\ request0 = [existing_history |-> history, tools |-> offered,
                   retries_remaining |-> n]
    /\ only_invalid = TRUE
    /\ out_of_order = FALSE
    /\ executions = 0
    /\ last_response = [tool_calls |-> <<>>, finish_reason |-> None, content |-> None]

Histories == {<<>>, <<Message("user", <<"question">>, <<>>, None)>>}

-----------------------------------------------------------------------------
(* app/think.py *)

MAX_OBJECTIVES == 5
MIN_STEPS == 3
MAX_STEPS == 10

\* think.py:194: max_length of _Res.tasks, enforced by the typed validation
MAX_TASKS == 3

\* a text of the model, as the sequence of its characters
Upper == <<"A", "C", "E", "I", "N", "R", "S", "T", "W", "Y">>
Lower == <<"a", "c", "e", "i", "n", "r", "s", "t", "w", "y">>

\* str.lower() on one character
LowerChar(c) ==
    IF \E i \in 1..Len(Upper) : Upper[i] = c
    THEN Lower[CHOOSE i \in 1..Len(Upper) : Upper[i] = c]
    ELSE c

\* str.lower()
StrLower(text) == [i \in 1..Len(text) |-> LowerChar(text[i])]

\* Python's `needle in text`
In(needle, text) ==
    \E k \in 0..(Len(text) - Len(needle)) :
        \A i \in 1..Len(needle) : text[k + i] = needle[i]

\* think.py:328: "can't answer"
DeclinePhrase == <<"c", "a", "n", "'", "t", " ", "a", "n", "s", "w", "e", "r">>

\* think.py:328 mutated: the response is not lowered before the test
DeclinesCaseSensitive(res) == In(DeclinePhrase, res)

\* think.py:327-329: _should_stop_objective returns False
Declines(res) == In(DeclinePhrase, StrLower(res))

\* responses of the model to the should-stop prompt (non_empty_completion
\* returns non-empty text only, llm.py:333-336)
CantAnswer == DeclinePhrase
CANT_ANSWER == <<"C", "A", "N", "'", "T", " ", "A", "N", "S", "W", "E", "R">>
Cant_Answer == <<"C", "a", "n", "'", "t", " ", "A", "n", "s", "w", "e", "r">>
ICantAnswerYet == <<"I", " ">> \o Cant_Answer \o <<" ", "y", "e", "t">>
CantAnswerDot == DeclinePhrase \o <<".">>
CantAnswe == <<"c", "a", "n", "'", "t", " ", "a", "n", "s", "w", "e">>
CantSpaceAnswer == <<"c", "a", "n", "t", " ", "a", "n", "s", "w", "e", "r">>
Yes == <<"Y", "e", "s">>
FortyTwo == <<"4", "2">>

\* no text: Python's None where a text is expected
NoText == <<>>

StopTexts ==
    {CantAnswer, CANT_ANSWER, Cant_Answer, ICantAnswerYet, CantAnswerDot,
     CantAnswe, CantSpaceAnswer, Yes, FortyTwo}

\* the responses of the runs of think() with several objectives
FewStopTexts == {Cant_Answer, FortyTwo}

\* state.py:10-14
PENDING == "pending"
IN_PROGRESS == "in_progress"
COMPLETED == "completed"
FAILED == "failed"

\* state.py:32-39 as think.py uses it: description, knowledge, status, steps, answer
ObjectiveState(description, knowledge) ==
    [description |-> description, knowledge |-> knowledge, status |-> PENDING,
     steps |-> <<>>, answer |-> NoText]

\* think.py:30-36
RootObjective ==
    ObjectiveState("Identify the ins and outs of the question.",
                   <<"User question is: ", "question">>)

\* scheduler.active_count mutated: a job counts once it has started to run
ActiveCountStarted ==
    Cardinality({t \in DOMAIN tasks : tasks[t].pc \in {"should_stop", "new_step"}})

\* scheduler.active_count: the spawned jobs that have not ended
ActiveCount ==
    Cardinality({t \in DOMAIN tasks : tasks[t].pc \notin {"done", "raised"}})

\* think.py:48-51 mutated: the scheduling loop has no exit condition
SomeUnfinishedAlways(objs) == TRUE

\* think.py:48-51: the condition of the scheduling loop
SomeUnfinished(objs) ==
    \E i \in DOMAIN objs : objs[i].status \in {IN_PROGRESS, PENDING}

\* think.py:61 mutated: one objective too many
CapReachedOffByOne(objs) == Len(objs) > MAX_OBJECTIVES

\* think.py:61 and think.py:70
CapReached(objs) == Len(objs) >= MAX_OBJECTIVES

\* think.py:59-65: the objectives after the loop over n proposed objectives
RECURSIVE Accept(_, _)
Accept(objs, n) ==
    IF n = 0 \/ CapReached(objs) THEN objs
    ELSE Accept(Append(objs, ObjectiveState("proposed task", <<>>)), n - 1)

\* aiojobs Scheduler.spawn, think.py:40-45 and think.py:82-88: one job per
\* objective from position `from` on; a job does not run before think() suspends
Spawn(jobs, objs, from) ==
    jobs \o [i \in 1..(Len(objs) - from + 1) |->
                [objective |-> from + i - 1, pc |-> "spawned"]]

\* think.py:53-55 mutated: the proposal call does not wait for the jobs
AfterLoopTestNoWait(objs, jobs_active) ==
    IF ~SomeUnfinished(objs) THEN "answer" ELSE "detect"

\* think.py:47-55 and think.py:104-105: where think() suspends next, from the
\* test of the scheduling loop
AfterLoopTest(objs, jobs_active) ==
    IF ~SomeUnfinished(objs) THEN "answer"
    ELSE IF jobs_active THEN "poll"
    ELSE "detect"

\* think.py:23-55: think() up to its first suspension
Start ==
    /\ o_pc = "start"
    /\ objectives' = <<RootObjective>>
    /\ tasks' = Spawn(tasks, objectives', 1)
    /\ stop_checks' = <<0>>
    /\ last_stop' = <<NoText>>
    /\ o_pc' = AfterLoopTest(objectives', TRUE)
    /\ UNCHANGED <<response, proposal_calls, proposed, answer_calls, answer_context, dropped,
                   c_vars, usage, counted, s_vars, l_vars>>

\* think.py:53-59: the poll finds no active job; _detect_new_objectives is called
Poll ==
    /\ o_pc = "poll"
    /\ ActiveCount = 0
    /\ o_pc' = "detect"
    /\ UNCHANGED <<objectives, tasks, response, proposal_calls, proposed,
                   answer_calls, answer_context, dropped, stop_checks, last_stop, c_vars, usage, counted, s_vars, l_vars>>

\* chat_completion.py:33-40: a Usage, with its computed total_tokens
Usage(prompt, completion) ==
    [prompt_tokens |-> prompt, completion_tokens |-> completion,
     total_tokens |-> completion + prompt]

\* the line of an objective in the knowledge section of the prompt
KnowledgeLine(objective) == <<objective.description, ": ", objective.knowledge>>

\* think.py:170 mutated: the objectives that ended are all listed
CompletedKnowledgeWithFailed(objs) ==
    LET ended == SelectSeq(objs, LAMBDA o : o.status \in {COMPLETED, FAILED})
    IN  [i \in DOMAIN ended |-> KnowledgeLine(ended[i])]

\* think.py:170: the knowledge section of the prompt of _answer_user: one line
\* per objective whose status is Completed, in the order of state.objectives
CompletedKnowledge(objs) ==
    LET completed == SelectSeq(objs, LAMBDA o : o.status = COMPLETED)
    IN  [i \in DOMAIN completed |-> KnowledgeLine(completed[i])]

\* what the proposal calls returned so far: the number of tasks of the first
\* call, and whether a later call returned any
NoProposal == [first |-> -1, later |-> FALSE]

Proposed(n) ==
    IF proposed.first = -1 THEN [first |-> n, later |-> FALSE]
    ELSE [first |-> proposed.first, later |-> proposed.later \/ n > 0]

CountCall(calls) == IF calls < MaxRounds THEN calls + 1 ELSE calls

\* think.py:57-88 and think.py:47-55: _detect_new_objectives returns n tasks
DetectReturns(n) ==
    /\ o_pc = "detect"
    /\ proposal_calls' = CountCall(proposal_calls)
    /\ proposed' = Proposed(n)
    /\ LET objs == Accept(objectives, n)
           new == Len(objs) - Len(objectives)
       IN
       /\ objectives' = objs
       /\ stop_checks' = stop_checks \o [i \in 1..new |-> 0]
       /\ last_stop' = last_stop \o [i \in 1..new |-> NoText]
       /\ IF new = 0
          THEN /\ UNCHANGED tasks
               /\ o_pc' = IF CapReached(objs) THEN "answer"
                          ELSE AfterLoopTest(objs, ActiveCount > 0)
          ELSE /\ tasks' = Spawn(tasks, objs, Len(objectives) + 1)
               /\ o_pc' = AfterLoopTest(objs, TRUE)
    /\ answer_calls' = answer_calls + (IF o_pc' = "answer" THEN 1 ELSE 0)
    /\ answer_context' = IF o_pc' = "answer" THEN CompletedKnowledge(objectives')
                          ELSE answer_context
    /\ dropped' = (dropped \/ Len(objectives') - Len(objectives) < n)
    /\ RequestCounted
    /\ UNCHANGED <<response, c_vars, s_vars, l_vars>>

\* a CompletionException of the proposal call leaves think()
DetectRaises ==
    /\ o_pc = "detect"
    /\ proposal_calls' = CountCall(proposal_calls)
    /\ o_pc' = "raised"
    /\ response' = [raised |-> "_detect_new_objectives", answer |-> None,
                    content |-> <<>>, usage |-> None]
    /\ RequestCounted
    /\ UNCHANGED <<objectives, tasks, proposed, answer_calls, answer_context, dropped,
                   stop_checks, last_stop, c_vars, s_vars, l_vars>>


\* think.py:126-131 mutated: the answer is left out of the content
ContentWithoutAnswer(objs, answer) ==
    <<"<thinking>">> \o [i \in DOMAIN objs |-> objs[i].description]
    \o <<"</thinking>">>

\* think.py:126-131: the content of the response message
Content(objs, answer) ==
    <<"<thinking>">> \o [i \in DOMAIN objs |-> objs[i].description]
    \o <<"</thinking>", answer>>

\* think.py:104-137: _answer_user returns the text; think() returns the response
AnswerReturns(text) ==
    /\ o_pc = "answer"
    /\ o_pc' = "done"
    /\ RequestCounted
    /\ response' = [raised |-> None, answer |-> text,
                    content |-> Content(objectives, text),
                    usage |-> Usage(usage'.prompt_tokens, usage'.completion_tokens)]
    /\ UNCHANGED <<objectives, tasks, proposal_calls, proposed, answer_calls, answer_context,
                   dropped, stop_checks, last_stop, c_vars, s_vars, l_vars>>

\* a CompletionException of _answer_user leaves think()
AnswerRaises ==
    /\ o_pc = "answer"
    /\ o_pc' = "raised"
    /\ response' = [raised |-> "_answer_user", answer |-> None,
                    content |-> <<>>, usage |-> None]
    /\ RequestCounted
    /\ UNCHANGED <<objectives, tasks, proposal_calls, proposed, answer_calls, answer_context,
                   dropped, stop_checks, last_stop, c_vars, s_vars, l_vars>>

\* think.py:255 mutated: the check is made one step early
MinStepsDoneOffByOne(objective) == Len(objective.steps) >= MIN_STEPS - 1

\* think.py:255
MinStepsDone(objective) == Len(objective.steps) >= MIN_STEPS

\* think.py:268 mutated: one step too many
MaxStepsReachedOffByOne(objective) == Len(objective.steps) > MAX_STEPS

\* think.py:268
MaxStepsReached(objective) == Len(objective.steps) >= MAX_STEPS

\* think.py:267-276: _run_objective after the should-stop check did not end it:
\* the objective fails, or a new step is requested
FailOrStep(t, objective) ==
    IF MaxStepsReached(objective)
    THEN /\ objectives' = [objectives EXCEPT ![tasks[t].objective] =
                               [objective EXCEPT !.status = FAILED]]
         /\ tasks' = [tasks EXCEPT ![t].pc = "done"]
         /\ UNCHANGED stop_checks
    ELSE /\ objectives' = [objectives EXCEPT ![tasks[t].objective] = objective]
         /\ tasks' = [tasks EXCEPT ![t].pc = "new_step"]
         /\ UNCHANGED stop_checks

\* think.py:253-276: _run_objective from the test of its loop to its next
\* suspension; objective is the state of the objective at the test
LoopTest(t, objective) ==
    IF objective.status # IN_PROGRESS
    THEN /\ objectives' = [objectives EXCEPT ![tasks[t].objective] = objective]
         /\ tasks' = [tasks EXCEPT ![t].pc = "done"]
         /\ UNCHANGED stop_checks
    ELSE IF MinStepsDone(objective)
    THEN /\ objectives' = [objectives EXCEPT ![tasks[t].objective] = objective]
         /\ tasks' = [tasks EXCEPT ![t].pc = "should_stop"]
         /\ stop_checks' = [stop_checks EXCEPT ![tasks[t].objective] = @ + 1]
    ELSE FailOrStep(t, objective)

\* think.py:251 mutated: the status is left as it was
StartedStillPending(objective) == objective

\* think.py:251: the first statement of the job
Started(objective) == [objective EXCEPT !.status = IN_PROGRESS]

\* think.py:247-253: the job starts to run
TaskStarts(t) ==
    /\ tasks[t].pc = "spawned"
    /\ LoopTest(t, Started(objectives[tasks[t].objective]))
    /\ UNCHANGED <<o_pc, response, proposal_calls, proposed, answer_calls, answer_context,
                   dropped, last_stop, c_vars, usage, counted, s_vars, l_vars>>

\* think.py:263-264 mutated: the answer is not stored
CompletedWithoutAnswer(objective, res) ==
    [objective EXCEPT !.status = COMPLETED]

\* think.py:263-264
Completed(objective, res) ==
    [objective EXCEPT !.status = COMPLETED, !.answer = res]

\* think.py:257-276 and think.py:327-332: the should-stop completion returns res
ShouldStopReturns(t, res) ==
    /\ tasks[t].pc = "should_stop"
    /\ last_stop' = [last_stop EXCEPT ![tasks[t].objective] = res]
    /\ LET objective == objectives[tasks[t].objective]
       IN  IF Declines(res)
           THEN FailOrStep(t, objective)
           ELSE /\ objectives' =
                       [objectives EXCEPT ![tasks[t].objective] =
                           Completed(objective, res)]
                /\ tasks' = [tasks EXCEPT ![t].pc = "done"]
                /\ UNCHANGED stop_checks
    /\ RequestCounted
    /\ UNCHANGED <<o_pc, response, proposal_calls, proposed, answer_calls, answer_context, dropped, c_vars, s_vars, l_vars>>

\* think.py:273-283 and think.py:253-276: the step completion returns a step
NewStepReturns(t) ==
    /\ tasks[t].pc = "new_step"
    /\ LET objective == objectives[tasks[t].objective]
       IN  LoopTest(t, [objective EXCEPT
                           !.steps = Append(@, Len(objective.steps) + 1)])
    /\ RequestCounted
    /\ UNCHANGED <<o_pc, response, proposal_calls, proposed, answer_calls, answer_context,
                   dropped, last_stop, c_vars, s_vars, l_vars>>

\* think.py:353 mutated: the text replaces what was recorded
PersistedAlone(recorded, knowledge) == <<"\n", knowledge>>

\* think.py:353: objective.knowledge += f"\n{knowledge}"
Persisted(recorded, knowledge) == recorded \o <<"\n", knowledge>>

\* think.py:345-353 mutated: the tool writes the objective appended last
\* instead of the one of its own _new_step call
ToolObjectiveLast(t) == Len(objectives)

\* think.py:335-353: the objective _knowledge_tool closes over is the
\* parameter of the _new_step call that defined it: the objective of the job
ToolObjective(t) == tasks[t].objective

\* think.py:345-354: _knowledge_tool is called with a text by a tool call of
\* the step completion the job is suspended in (llm.py:408); it has no await,
\* so it runs in one piece whatever else the gather is running
KnowledgeTool(t, knowledge) ==
    /\ tasks[t].pc = "new_step"
    /\ objectives' =
           [objectives EXCEPT ![ToolObjective(t)].knowledge =
               Persisted(@, knowledge)]
    /\ UNCHANGED <<o_pc, tasks, response, proposal_calls, proposed, answer_calls,
                   answer_context, dropped, stop_checks, last_stop, c_vars,
                   usage, counted, s_vars, l_vars>>

\* a CompletionException of the should-stop or step completion leaves
\* _run_objective: the job ends, the objective is left as it is
CompletionRaises(t) ==
    /\ tasks[t].pc \in {"should_stop", "new_step"}
    /\ tasks' = [tasks EXCEPT ![t].pc = "raised"]
    /\ RequestCounted
    /\ UNCHANGED <<o_pc, objectives, response, proposal_calls, proposed,
                   answer_calls, answer_context, dropped, stop_checks, last_stop, c_vars, s_vars, l_vars>>

-----------------------------------------------------------------------------
(* app/main.py: the streaming response *)

\* chat_completion.py:27-30 and chat_completion.py:43-49: a chunk is the list of
\* its choices, each one its finish_reason; `id` tells the chunks apart
FinishReasons == {None, "stop"}

Choices == {<<>>} \cup {<<a>> : a \in FinishReasons}
           \cup {<<a, b>> : a \in FinishReasons, b \in FinishReasons}

Chunk(id, choices) == [id |-> id, choices |-> choices]

\* main.py:64-66 mutated: only the first choice is looked at
FinishedFirstChoiceOnly(completion) ==
    /\ Len(completion.choices) > 0
    /\ completion.choices[1] # None

\* main.py:64-66: any(choice.finish_reason is not None ...)
Finished(completion) ==
    \E i \in 1..Len(completion.choices) : completion.choices[i] # None

\* main.py:46-53 and main.py:72-75: a request with stream set: the queue and the
\* producer task are created, the generator is handed to the response
StartStream ==
    /\ g_pc = "none"
    /\ g_pc' = "get"
    /\ think_task' = "running"
    /\ UNCHANGED <<completions_queue, emitted, enqueued, c_vars, t_vars, usage, counted, l_vars>>

\* the producer task puts a chunk on the queue (asyncio.Queue.put), whatever
\* its finish reasons and whatever it put before
Put(choices) ==
    /\ think_task = "running"
    /\ Len(enqueued) < MaxChunks
    /\ LET completion == Chunk(Len(enqueued) + 1, choices)
       IN  /\ completions_queue' = Append(completions_queue, completion)
           /\ enqueued' = Append(enqueued, completion)
    /\ UNCHANGED <<g_pc, think_task, emitted, c_vars, t_vars, usage, counted, l_vars>>

\* the producer task returns
ProducerEnds ==
    /\ think_task = "running"
    /\ think_task' = "done"
    /\ UNCHANGED <<g_pc, completions_queue, emitted, enqueued, c_vars, t_vars, usage, counted, l_vars>>

\* Task.cancel() on the producer: a task that has ended stays as it is
Cancel(task) == IF task = "running" THEN "cancelled" ELSE task

\* main.py:59-60: get() returns the oldest chunk, which is yielded
GetAndYield ==
    /\ g_pc = "get"
    /\ completions_queue # <<>>
    /\ emitted' = Append(emitted, Head(completions_queue))
    /\ completions_queue' = Tail(completions_queue)
    /\ g_pc' = "yielded"
    /\ UNCHANGED <<think_task, enqueued, c_vars, t_vars, usage, counted, l_vars>>

\* main.py:61-70: the consumer asks for the next chunk: task_done(), then the
\* generator stops or goes back to get()
Resume ==
    /\ g_pc = "yielded"
    /\ IF Finished(emitted[Len(emitted)])
       THEN /\ g_pc' = "closed"
            /\ think_task' = Cancel(think_task)
       ELSE /\ g_pc' = "get"
            /\ UNCHANGED think_task
    /\ UNCHANGED <<completions_queue, emitted, enqueued, c_vars, t_vars, usage, counted, l_vars>>

\* main.py:68-70: the consumer closes the generator while it is suspended
\* (the client went away): the finally block runs
Close ==
    /\ g_pc \in {"get", "yielded"}
    /\ g_pc' = "closed"
    /\ think_task' = Cancel(think_task)
    /\ UNCHANGED <<completions_queue, emitted, enqueued, c_vars, t_vars, usage, counted, l_vars>>

(* app/helpers/cache.py *)

\* largest maxsize a function is decorated with
MaxSize == 2
\* calls of the wrapper of one decorated function
MaxCalls == 4

\* the keys the wrapper is called with: cache.py:20-24 and cache.py:60-63
\* make one of the arguments of the call
Keys == {"a", "b", "c"}

\* nothing was returned yet
NoReturn == [call |-> 0, key |-> None, value |-> 0]

\* the keys of the entries, `key in cache` being KeyIn
CachedKeys(entries) == {entries[i].key : i \in DOMAIN entries}

KeyIn(entries, key) == key \in CachedKeys(entries)

\* cache[key]
Stored(entries, key) ==
    entries[CHOOSE i \in DOMAIN entries : entries[i].key = key].value

\* OrderedDict.move_to_end mutated: the entry stays where it is
MoveToEndNot(entries, key) == entries

\* OrderedDict.move_to_end(key): cache.py:28, 34, 67, 73
MoveToEnd(entries, key) ==
    SelectSeq(entries, LAMBDA e : e.key # key)
    \o SelectSeq(entries, LAMBDA e : e.key = key)

\* OrderedDict.__setitem__: a new key goes last, a key that is there keeps
\* its place and gets the value
SetItem(entries, key, value) ==
    IF KeyIn(entries, key)
    THEN [i \in DOMAIN entries |->
             IF entries[i].key = key THEN [key |-> key, value |-> value]
             ELSE entries[i]]
    ELSE Append(entries, [key |-> key, value |-> value])

\* cache.py:37-38 and cache.py:76-77: popitem(last=False) when the cache
\* has more than maxsize entries
PopItem(entries, size) ==
    IF Len(entries) > size THEN Tail(entries) ELSE entries

\* cache.py:33-38 and cache.py:72-77
Store(entries, key, value, size) ==
    PopItem(MoveToEnd(SetItem(entries, key, value), key), size)

\* when an entry was used last
LatestUse == CHOOSE at \in {last_used[k] : k \in Keys} :
                 \A k \in Keys : last_used[k] <= at

\* the wrapper uses the entry of the key: it returns it or stores it
Used(key) == [last_used EXCEPT ![key] = LatestUse + 1]

\* no function is decorated
InitCache ==
    /\ decorated = "none"
    /\ maxsize = 0
    /\ cache = <<>>
    /\ awaited = {}
    /\ func_calls = 0
    /\ wrapper_calls = [made |-> 0, key |-> None]
    /\ last_return = NoReturn
    /\ last_used = [k \in Keys |-> 0]

\* cache.py:7-15 and cache.py:47-55: the decorator is applied to a function
Decorator(kind, size) ==
    /\ decorated = "none"
    /\ decorated' = kind
    /\ maxsize' = size
    /\ cache' = <<>>
    /\ UNCHANGED <<awaited, func_calls, wrapper_calls, last_return, last_used,
                   c_vars, t_vars, usage, counted, s_vars>>

\* cache.py:18-32 and cache.py:58-79: the wrapper is called. With the key in
\* the cache it returns; without it, the wrapper of lru_cache calls func and
\* stores what it returns, the wrapper of lru_acache awaits func
Wrapper(key) ==
    /\ decorated # "none"
    /\ wrapper_calls.made < MaxCalls
    /\ wrapper_calls' = [made |-> wrapper_calls.made + 1, key |-> key]
    /\ IF KeyIn(cache, key)
       THEN /\ cache' = MoveToEnd(cache, key)
            /\ last_return' = [call |-> wrapper_calls'.made, key |-> key,
                               value |-> Stored(cache', key)]
            /\ last_used' = Used(key)
            /\ UNCHANGED <<awaited, func_calls>>
       ELSE /\ func_calls' = func_calls + 1
            /\ IF decorated = "lru_cache"
               THEN /\ cache' = Store(cache, key, func_calls', maxsize)
                    /\ last_return' = [call |-> wrapper_calls'.made, key |-> key,
                                       value |-> func_calls']
                    /\ last_used' = Used(key)
                    /\ UNCHANGED awaited
               ELSE /\ awaited' = awaited \cup
                           {[call |-> wrapper_calls'.made, key |-> key,
                             value |-> func_calls']}
                    /\ UNCHANGED <<cache, last_return, last_used>>
    /\ UNCHANGED <<decorated, maxsize, c_vars, t_vars, usage, counted, s_vars>>

\* cache.py:32-40: func returns to a suspended wrapper of lru_acache
FuncReturns(call) ==
    /\ call \in awaited
    /\ awaited' = awaited \ {call}
    /\ cache' = Store(cache, call.key, call.value, maxsize)
    /\ last_return' = call
    /\ last_used' = Used(call.key)
    /\ UNCHANGED <<decorated, maxsize, func_calls, wrapper_calls,
                   c_vars, t_vars, usage, counted, s_vars>>

\* cache.py:32 and cache.py:71: func raises; the exception leaves the wrapper
FuncRaises(call) ==
    /\ call \in awaited
    /\ awaited' = awaited \ {call}
    /\ UNCHANGED <<decorated, maxsize, cache, func_calls, wrapper_calls,
                   last_return, last_used, c_vars, t_vars, usage, counted, s_vars>>

-----------------------------------------------------------------------------
\* no streaming request is being served
InitStream ==
    /\ g_pc = "none"
    /\ completions_queue = <<>>
    /\ think_task = "none"
    /\ emitted = <<>>
    /\ enqueued = <<>>

-----------------------------------------------------------------------------

\* think() has not been called
InitThink ==
    /\ o_pc = "start"
    /\ objectives = <<>>
    /\ tasks = <<>>
    /\ response = [raised |-> None, answer |-> None, content |-> <<>>,
                   usage |-> None]
    /\ proposal_calls = 0
    /\ proposed = NoProposal
    /\ answer_calls = 0
    /\ answer_context = <<>>
    /\ dropped = FALSE
    /\ stop_checks = <<>>
    /\ last_stop = <<>>
    /\ usage = [prompt_tokens |-> 0, completion_tokens |-> 0]
    /\ counted = [prompt_tokens |-> 0, completion_tokens |-> 0]
    /\ InitStream
    /\ InitCache

\* a run of think() alone: its completion requests are not modelled in detail
InitRun == InitCompletion(<<>>, {}, "non_empty", 0) /\ InitThink

-----------------------------------------------------------------------------
(* The retry protocol: any request, any responses with few tool calls. *)

InitRetry ==
    \E history \in Histories, offered \in {{}, Functions},
       callback \in {"non_empty", "typed"}, n \in 0..MaxRetries :
        InitCompletion(history, offered, callback, n) /\ InitThink

Respond ==
    /\ invocations < MaxInvocations
    /\ \E res \in Responses(RetryCallLists) :
          /\ res.tool_calls # <<>> => tool_rounds < MaxToolRounds
          /\ RawCompletion(res)

ToolEnds == \E i \in 1..MaxToolCalls + 1, how \in {"return", "TypeError", "raise"} :
               ToolReturns(i, how)

NextRetry == Respond \/ ToolEnds \/ GatherDone

SpecRetry == InitRetry /\ [][NextRetry]_vars

-----------------------------------------------------------------------------
(* Tool execution: one response with many tool calls, then the follow-up. *)

InitTools ==
    \E offered \in {{}, Functions} :
        InitCompletion(<<Message("user", <<"question">>, <<>>, None)>>, offered,
                       "typed", 0) /\ InitThink

RespondWithTools ==
    /\ invocations = 0
    /\ \E res \in Responses(CallLists(MaxToolCalls)) :
          /\ res.tool_calls # <<>>
          /\ RawCompletion(res)

FollowUp ==
    /\ invocations = 1
    /\ \E res \in Responses({}) : RawCompletion(res)

NextTools == RespondWithTools \/ ToolEnds \/ GatherDone \/ FollowUp

SpecTools == InitTools /\ [][NextTools]_vars

-----------------------------------------------------------------------------
(* Tool rounds: a response with many calls, then any responses, also ones  *)
(* that ask for tools again, and validation retries.                       *)

\* a response that asks for MaxToolCalls calls of an offered function
ManyCalls == [i \in 1..MaxToolCalls |-> [id |-> CallIds[i], name |-> "_knowledge_tool"]]

InitRounds ==
    \E n \in 0..1 :
        InitCompletion(<<Message("user", <<"question">>, <<>>, None)>>, Functions,
                       "typed", n) /\ InitThink

RespondInRounds ==
    /\ invocations < MaxInvocations
    /\ \E res \in Responses(RetryCallLists \cup {ManyCalls}) :
          /\ res.tool_calls # <<>> => tool_rounds < MaxToolRounds
          /\ (tool_rounds = 0 /\ res.tool_calls # <<>>) => res.tool_calls = ManyCalls
          /\ RawCompletion(res)

NextRounds == RespondInRounds \/ ToolEnds \/ GatherDone

SpecRounds == InitRounds /\ [][NextRounds]_vars

-----------------------------------------------------------------------------
(* Pages read concurrently: one response with calls of _wrapper, each of   *)
(* which may run a completion request of its own, then the follow-up.      *)

\* calls of _wrapper in the response
MaxReads == 3

ReadCalls(n) == [i \in 1..n |-> [id |-> CallIds[i], name |-> "_wrapper"]]

InitUsage ==
    InitCompletion(<<Message("user", <<"question">>, <<>>, None)>>, Functions,
                   "typed", 0) /\ InitThink

RespondWithReads ==
    /\ invocations = 0
    /\ \E n \in 1..MaxReads :
          RawCompletion([tool_calls |-> ReadCalls(n), finish_reason |-> "tool_calls",
                         content |-> ""])

\* a read ends: from the cache, with the synthesis of its own completion, or
\* by an exception of that completion
ReadEnds ==
    \E i \in 1..MaxReads, how \in {"return", "synthesis", "raise"} :
        ToolReturns(i, how)

NextUsage == RespondWithReads \/ ReadEnds \/ GatherDone \/ FollowUp

SpecUsage == InitUsage /\ [][NextUsage]_vars

-----------------------------------------------------------------------------
(* A run of think(): the orchestrator and the jobs of its objectives. *)

\* completions of the objectives' jobs that raise in one run
MaxFaults == 1

\* the step counts at which the model answers a should-stop check of a run
\* with several objectives: at the first check or at the last one
AnswerSteps == {MIN_STEPS, MAX_STEPS}

\* the step counts at which a completion of a job raises in such a run
FaultSteps == {MIN_STEPS}

Faults == Cardinality({t \in DOMAIN tasks : tasks[t].pc = "raised"})

Propose ==
    \E n \in 0..MaxProposed : n <= MAX_TASKS /\ DetectReturns(n)

ProposeRaises == DetectRaises

\* texts of the final answer
AnswerTexts == {"final answer", "I don't know"}

Answer == \E text \in AnswerTexts : AnswerReturns(text)

JobStarts == \E t \in DOMAIN tasks : TaskStarts(t)

StopAnswered ==
    \E t \in DOMAIN tasks, res \in FewStopTexts :
        /\ Declines(res) \/ Len(objectives[tasks[t].objective].steps) \in AnswerSteps
        /\ ShouldStopReturns(t, res)

StepMade == \E t \in DOMAIN tasks : NewStepReturns(t)

JobRaises ==
    /\ Faults < MaxFaults
    /\ \E t \in DOMAIN tasks :
          /\ Len(objectives[tasks[t].objective].steps) \in FaultSteps
          /\ CompletionRaises(t)

NextThink ==
    \/ Start \/ Poll \/ Propose \/ ProposeRaises \/ Answer \/ AnswerRaises
    \/ JobStarts \/ StopAnswered \/ StepMade \/ JobRaises

SpecThink == InitRun /\ [][NextThink]_vars

-----------------------------------------------------------------------------
(* A run of think() whose step completions record knowledge. *)

\* texts recorded with _knowledge_tool in one run
MaxRecords == 2

\* the texts the model asks to record
KnowledgeTexts == {"fact A", "fact B"}

\* the texts recorded so far in the run: each one follows a "\n"
Records ==
    Cardinality({place \in UNION {{<<i, k>> : k \in DOMAIN objectives[i].knowledge} :
                                     i \in DOMAIN objectives} :
                    objectives[place[1]].knowledge[place[2]] = "\n"})

Record ==
    /\ Records < MaxRecords
    /\ \E t \in DOMAIN tasks, text \in KnowledgeTexts : KnowledgeTool(t, text)

\* the model proposes two tasks or none at the first proposal call, and none
\* at the later ones
ProposeOnce ==
    \E n \in {0, 2} :
        /\ proposal_calls > 0 => n = 0
        /\ DetectReturns(n)

NextKnowledge ==
    \/ Start \/ Poll \/ ProposeOnce \/ ProposeRaises \/ Answer \/ AnswerRaises
    \/ JobStarts \/ StopAnswered \/ StepMade \/ JobRaises \/ Record

SpecKnowledge == InitRun /\ [][NextKnowledge]_vars

-----------------------------------------------------------------------------
(* One objective: the run of think() in which nothing is proposed. *)

NothingProposed == DetectReturns(0)

StopAnsweredAnyText ==
    \E t \in DOMAIN tasks, res \in StopTexts : ShouldStopReturns(t, res)

RootRaises == \E t \in DOMAIN tasks : CompletionRaises(t)

NextObjective ==
    \/ Start \/ Poll \/ NothingProposed \/ ProposeRaises \/ Answer \/ AnswerRaises
    \/ JobStarts \/ StopAnsweredAnyText \/ StepMade \/ RootRaises

SpecObjective == InitRun /\ [][NextObjective]_vars

\* The event loop runs every coroutine that can run, and every model call
\* returns: what is awaited ends. Nothing makes a completion raise.
FairObjective ==
    /\ SpecObjective
    /\ WF_vars(Start) /\ WF_vars(Poll) /\ WF_vars(NothingProposed)
    /\ WF_vars(Answer) /\ WF_vars(JobStarts) /\ WF_vars(StopAnsweredAnyText)
    /\ WF_vars(StepMade)

-----------------------------------------------------------------------------
(* A run of think() in which every call returns and no completion raises. *)

NextReturns ==
    Start \/ Poll \/ Propose \/ Answer \/ JobStarts \/ StopAnswered \/ StepMade

SpecReturns == InitRun /\ [][NextReturns]_vars

\* The event loop runs every coroutine that can run, and every model call
\* returns: what is awaited ends.
FairReturns ==
    /\ SpecReturns
    /\ WF_vars(Start) /\ WF_vars(Poll) /\ WF_vars(Propose) /\ WF_vars(Answer)
    /\ WF_vars(JobStarts) /\ WF_vars(StopAnswered) /\ WF_vars(StepMade)

-----------------------------------------------------------------------------
(* A run of think() in which no job raises: the proposal call and the final *)
(* answer may.                                                              *)

NextJobsReturn ==
    \/ Start \/ Poll \/ Propose \/ ProposeRaises \/ Answer \/ AnswerRaises
    \/ JobStarts \/ StopAnswered \/ StepMade

SpecJobsReturn == InitRun /\ [][NextJobsReturn]_vars

-----------------------------------------------------------------------------
(* A function decorated with lru_cache or lru_acache, and calls of it. *)

Decorate ==
    \E kind \in {"lru_cache", "lru_acache"}, size \in 0..MaxSize :
        Decorator(kind, size)

CallWrapper == \E key \in Keys : Wrapper(key)

FuncEnds == \E call \in awaited : FuncReturns(call) \/ FuncRaises(call)

NextCache == Decorate \/ CallWrapper \/ FuncEnds

SpecCache == InitRun /\ [][NextCache]_vars

-----------------------------------------------------------------------------
(* A streaming request: the producer task, the queue and _generator. *)

Produce == \E choices \in Choices : Put(choices)

NextStream == StartStream \/ Produce \/ ProducerEnds \/ GetAndYield \/ Resume \/ Close

SpecStream == InitRun /\ [][NextStream]_vars

-----------------------------------------------------------------------------
(* Claims on the completion protocol. *)

SystemMessagesSent ==
    {i \in 1..Len(last_call.sent) : last_call.sent[i].role = "system"}

\* C2 as claimed: on a retry after a validation failure the system message
\* sent to the model includes the previous response and the error text.
C2_SystemPromptHasError ==
    last_call.validation_error # None =>
        \E i \in SystemMessagesSent :
            /\ Includes(last_call.sent[i].content, last_call.previous_result)
            /\ Includes(last_call.sent[i].content, last_call.validation_error)

\* C2 amended: on a retry after a validation failure the system message is
\* the caller's prompt unchanged, and the outgoing message list ends with an
\* assistant message carrying the previous rejected response followed by a
\* user message carrying the validation error text.
C2_HistoryHasError ==
    last_call.validation_error # None =>
        LET sent == last_call.sent
            n == Len(sent)
        IN  /\ n >= 3
            /\ SystemMessagesSent = {1}
            /\ sent[1] = SystemMessage
            /\ sent[n - 1].role = "assistant"
            /\ sent[n - 1].content = <<last_call.previous_result>>
            /\ sent[n].role = "user"
            /\ Includes(sent[n].content, last_call.validation_error)

C2_Witness ==
    /\ last_call.validation_error = "pydantic error 2"
    /\ last_call.previous_result = "bad2"
    /\ last_call.retries_remaining = 0
    /\ invocations = 3
    /\ tool_rounds = 0

\* what _execute_tool returns without calling a function
IsRejection(slot) ==
    /\ slot.status = "returned"
    /\ slot.message.content[1] \in
           {"No function name provided.", "Function '",
            "Too many tools called at once (limit is 5)."}

\* the positions (1-based) of the response whose function was called
Executed == {i \in DOMAIN tool_results : ~IsRejection(tool_results[i])}

\* C3: of the tool calls of one response at most MAX_SIMULTANEOUS_TOOLS
\* functions are executed, and a call at position 6 or later is rejected with
\* a tool message, whatever happened to the calls before it.
C3_ToolsBounded ==
    /\ Cardinality(Executed) <= MAX_SIMULTANEOUS_TOOLS
    /\ \A i \in DOMAIN tool_results :
           i > MAX_SIMULTANEOUS_TOOLS =>
               /\ IsRejection(tool_results[i])
               /\ tool_results[i].message.tool_call_id = tool_calls[i].id

C3_Witness ==
    /\ Len(tool_calls) > MAX_SIMULTANEOUS_TOOLS
    /\ Executed = 1..MAX_SIMULTANEOUS_TOOLS
    /\ \A i \in Executed : tool_results[i].status = "returned"
    /\ tool_results[MAX_SIMULTANEOUS_TOOLS + 1].message.content =
           <<"Too many tools called at once (limit is 5).">>

\* the call at position i (1-based) is one _execute_tool rejects
Rejectable(i) ==
    \/ tool_calls[i].name = None
    \/ tool_calls[i].name \notin tools
    \/ i > MAX_SIMULTANEOUS_TOOLS

\* the tool messages of what the last invocation sent, by their first part
ToolTextsSent ==
    {last_call.sent[i].content[1] :
        i \in {j \in 1..Len(last_call.sent) : last_call.sent[j].role = "tool"}}

\* C13: a tool call that is rejected (no name, name not offered, position
\* beyond the limit) or whose arguments do not bind (TypeError) does not raise:
\* its result is one tool message with the id of the call, a request is left
\* during the tool round only by a function that raised something else, and
\* once every call has its message the follow-up invocation is made.
C13_RejectionsAreMessages ==
    /\ \A i \in DOMAIN tool_results :
           /\ Rejectable(i) => IsRejection(tool_results[i])
           /\ tool_results[i].status = "returned" =>
                 /\ tool_results[i].message.role = "tool"
                 /\ tool_results[i].message.tool_call_id = tool_calls[i].id
           /\ tool_results[i].status = "raised" => ~Rejectable(i)
    /\ (c_pc = "raised" /\ invocations = tool_rounds) =>
           \E i \in DOMAIN tool_results : tool_results[i].status = "raised"
    /\ (c_pc = "gather" /\ \A i \in DOMAIN tool_results :
                              tool_results[i].status = "returned") =>
           ENABLED GatherDone

C13_Witness ==
    /\ invocations = 2
    /\ tool_rounds = 1
    /\ ToolTextsSent = {"No function name provided.", "Function '",
                        "Too many tools called at once (limit is 5).",
                        "Bad arguments: "}

\* the tool messages the calls of a response must get, in the order of the calls
InOrderOfCalls(messages, calls) ==
    /\ Len(messages) = Len(calls)
    /\ \A i \in 1..Len(calls) :
           /\ messages[i].role = "tool"
           /\ messages[i].tool_call_id = calls[i].id

C15_ToolsOfferedOnce ==
    /\ [](/\ executions <= MAX_SIMULTANEOUS_TOOLS
          /\ (tool_rounds >= 1 /\ c_pc = "invoke") => tools = {}
          /\ tool_rounds >= 2 =>
                \A i \in DOMAIN tool_results : IsRejection(tool_results[i]))
    /\ [][(tool_rounds >= 1 /\ invocations' > invocations) =>
              /\ last_call'.tools = {}
              /\ executions' = executions]_vars

C15_Witness ==
    /\ c_pc = "returned"
    /\ tool_rounds = 2
    /\ executions = MAX_SIMULTANEOUS_TOOLS
    /\ last_call.validation_error # None
    /\ last_call.tools = {}

\* what the frame that is about to invoke the model will send
NextSent ==
    <<SystemMessage>> \o LocalHistory(existing_history, previous_result, validation_error)

\* the frame that is about to invoke the model is the follow-up of a tool
\* round: the history it was given ends with the tool results
IsFollowUp ==
    /\ c_pc = "invoke"
    /\ existing_history # <<>>
    /\ existing_history[Len(existing_history)].role = "tool"

\* the messages of a list that put a rejected response back (assistant, no
\* tool calls) and those that carry a validation error
RejectedResponses(list) ==
    {i \in 1..Len(list) : list[i].role = "assistant" /\ list[i].tool_calls = <<>>}

ValidationErrors(list) ==
    {i \in 1..Len(list) :
        /\ list[i].role = "user"
        /\ list[i].content[1] = "A validation error occurred, please retry: "}

\* C16 as claimed: the follow-up of a tool round taken during a validation
\* retry is entered without the previous response and the validation error,
\* so what it sends has each rejected response and each validation error of
\* the request once at most.
C16_RetryContextDiscarded ==
    IsFollowUp =>
        LET failures == request0.retries_remaining - retries_remaining
        IN  /\ previous_result = None
            /\ validation_error = None
            /\ Cardinality(RejectedResponses(NextSent)) <= failures
            /\ Cardinality(ValidationErrors(NextSent)) <= failures

\* the last response asked for no tool and is truncated or empty
Fatal ==
    /\ invocations > 0
    /\ last_response.tool_calls = <<>>
    /\ last_response.finish_reason # "stop" \/ last_response.content = ""

Retried ==
    /\ invocations > 0
    /\ c_pc = "invoke"
    /\ retries_remaining = last_call.retries_remaining - 1

C19_SameHistoryOnRetry ==
    (invocations > 0 /\ tool_rounds = 0) =>
        /\ last_call.existing_history = request0.existing_history
        /\ last_call.validation_error # None =>
              last_call.sent =
                  <<SystemMessage>> \o request0.existing_history \o
                  <<Message("assistant", <<last_call.previous_result>>, <<>>, None),
                    Message("user",
                            <<"A validation error occurred, please retry: ",
                              last_call.validation_error>>, <<>>, None)>>

\* C11: the usage in the response of a completed run is the accumulated
\* usage of the run, its total_tokens is prompt_tokens + completion_tokens,
\* and both prompt_tokens and completion_tokens are positive.
C11_UsagePositive ==
    o_pc = "done" =>
        /\ response.usage.prompt_tokens = usage.prompt_tokens
        /\ response.usage.completion_tokens = usage.completion_tokens
        /\ response.usage.total_tokens =
               response.usage.prompt_tokens + response.usage.completion_tokens
        /\ response.usage.prompt_tokens > 0
        /\ response.usage.completion_tokens > 0

C11_Witness ==
    /\ o_pc = "done"
    /\ Len(objectives) = 1
    /\ response.usage = Usage(MaxUsage, MaxUsage)

\* a chunk one of whose choices has a finish reason
HasFinishReason(chunk) == chunk.choices \notin {<<>>, <<None>>, <<None, None>>}

\* C12: the generator emits the queued chunks in the order they were
\* enqueued, every emitted chunk except the last has no finish reason, the
\* generator stops (and cancels the producer) right after the first emitted
\* chunk that has one, and a stopped generator emitted nothing after it.
C12_StreamEndsAtFinish ==
    /\ [](/\ Len(emitted) <= Len(enqueued)
          /\ \A i \in 1..Len(emitted) : emitted[i] = enqueued[i]
          /\ \A i \in 1..(Len(emitted) - 1) : ~HasFinishReason(emitted[i])
          /\ (Len(emitted) > 0 /\ HasFinishReason(emitted[Len(emitted)])) =>
                g_pc \in {"yielded", "closed"}
          /\ g_pc = "closed" => think_task # "running")
    /\ [][/\ g_pc = "closed" => emitted' = emitted
          /\ (g_pc = "yielded" /\ HasFinishReason(emitted[Len(emitted)])) =>
                (g_pc' = "closed" \/ g_pc' = g_pc)]_vars

C12_Witness ==
    /\ g_pc = "closed"
    /\ Len(emitted) = 3
    /\ Len(enqueued) = 4
    /\ HasFinishReason(enqueued[4])
    /\ emitted[3].choices = <<None, "stop">>
    /\ think_task = "cancelled"

-----------------------------------------------------------------------------
(* Claims on think() and the objectives. *)

Terminal(objective) == objective.status \in {COMPLETED, FAILED}

\* C4, its state part: the answer is set exactly when the status is Completed
AnswerIffCompleted ==
    \A i \in DOMAIN objectives :
        (objectives[i].answer # NoText) <=> (objectives[i].status = COMPLETED)

\* C4, its step part: a Completed or Failed status is never changed
TerminalStays ==
    \A i \in DOMAIN objectives :
        Terminal(objectives[i]) =>
            /\ i \in DOMAIN objectives'
            /\ objectives'[i].status = objectives[i].status

\* C4: in every state of a run and for every objective, a status Completed or
\* Failed never changes again, and the answer is non-null if and only if the
\* status is Completed.
C4_TerminalAndAnswer == [](AnswerIffCompleted) /\ [][TerminalStays]_vars

C4_Witness ==
    /\ o_pc = "done"
    /\ \E i, j \in DOMAIN objectives :
          /\ objectives[i].status = COMPLETED
          /\ objectives[i].answer = FortyTwo
          /\ objectives[j].status = FAILED
          /\ objectives[j].answer = NoText

\* C5: the number of objectives never decreases and never exceeds
\* MAX_OBJECTIVES; once it equals MAX_OBJECTIVES no objective is appended and
\* no job is spawned any more, whatever is proposed.
C5_ObjectivesCapped ==
    /\ [](/\ Len(objectives) <= MAX_OBJECTIVES
          /\ Len(tasks) = Len(objectives)
          /\ dropped => Len(objectives) = MAX_OBJECTIVES)
    /\ [][/\ Len(objectives') >= Len(objectives)
          /\ Len(objectives) = MAX_OBJECTIVES =>
                /\ Len(objectives') = MAX_OBJECTIVES
                /\ tasks' = tasks \/ Len(tasks') = Len(tasks)]_vars

C5_Witness ==
    /\ Len(objectives) = MAX_OBJECTIVES
    /\ Len(tasks) = MAX_OBJECTIVES
    /\ dropped
    /\ o_pc = "done"

\* C6: the should-stop check is never made on an objective with fewer than
\* MIN_STEPS steps, no step is requested or appended once the objective has
\* MAX_STEPS steps, and the step count never exceeds MAX_STEPS.
C6_StepWindow ==
    \A t \in DOMAIN tasks :
        LET i == tasks[t].objective
            n == Len(objectives[i].steps)
        IN  /\ n <= MAX_STEPS
            /\ tasks[t].pc = "should_stop" => n >= MIN_STEPS
            /\ stop_checks[i] > 0 => n >= MIN_STEPS
            /\ tasks[t].pc = "new_step" => n < MAX_STEPS

C6_Witness ==
    \E t \in DOMAIN tasks :
        /\ tasks[t].objective > 1
        /\ Len(objectives[tasks[t].objective].steps) = MAX_STEPS
        /\ tasks[t].pc = "should_stop"

\* the same letter, whatever the case
SameLetter(a, b) ==
    a = b \/ \E j \in 1..Len(Upper) : {a, b} = {Upper[j], Lower[j]}

\* the text is the decline phrase, in any letter case
IsDeclinePhrase(text) ==
    /\ Len(text) = Len(DeclinePhrase)
    /\ \A i \in 1..Len(text) : SameLetter(text[i], DeclinePhrase[i])

\* the text has the decline phrase in it, in any letter case
HasDeclinePhrase(text) ==
    \E k \in 0..(Len(text) - Len(DeclinePhrase)) :
        \A i \in 1..Len(DeclinePhrase) : SameLetter(text[k + i], DeclinePhrase[i])

\* the objective was told to continue: it is not completed and has no answer
Continues(i) ==
    objectives[i].status # COMPLETED /\ objectives[i].answer = NoText

\* the text was taken as the final answer of the objective
TakenAsAnswer(i, text) ==
    objectives[i].status = COMPLETED /\ objectives[i].answer = text

\* C7 as claimed: a should-stop response equal to the decline phrase in any
\* letter case means "continue"; any other non-empty response is the final
\* answer of the objective.
C7_ExactPhraseDeclines ==
    \A i \in DOMAIN objectives :
        last_stop[i] # NoText =>
            IF IsDeclinePhrase(last_stop[i])
            THEN Continues(i)
            ELSE TakenAsAnswer(i, last_stop[i])

\* C7 amended: a should-stop response that has the decline phrase in it, in
\* any letter case, means "continue"; any other non-empty response is the
\* final answer of the objective.
C7_PhraseInsideDeclines ==
    \A i \in DOMAIN objectives :
        last_stop[i] # NoText =>
            IF HasDeclinePhrase(last_stop[i])
            THEN Continues(i)
            ELSE TakenAsAnswer(i, last_stop[i])

C7_Witness ==
    /\ Len(objectives) = 1
    /\ last_stop[1] = ICantAnswerYet
    /\ objectives[1].status = IN_PROGRESS
    /\ tasks[1].pc = "new_step"
    /\ Len(objectives[1].steps) = MIN_STEPS + 1

\* the run of scenario 1: the first should-stop check of the root objective,
\* at MIN_STEPS steps, returned an answer, and the proposal call returned
\* no task
Scenario1 ==
    /\ proposed.first = 0
    /\ objectives[1].status = COMPLETED
    /\ Len(objectives[1].steps) = MIN_STEPS

\* C8: in scenario 1 the run has exactly one objective, Completed with
\* exactly 3 steps, the proposal call is made (once), the final synthesis is
\* performed, and the content think() returns has the synthesized answer.
C8_Scenario1 ==
    Scenario1 =>
        /\ Len(objectives) = 1
        /\ stop_checks[1] = 1
        /\ proposal_calls = 1
        /\ answer_calls = 1
        /\ o_pc \in {"answer", "done", "raised"}
        /\ o_pc = "raised" => response.raised = "_answer_user"
        /\ o_pc = "done" =>
              /\ response.answer \in AnswerTexts
              /\ Includes(response.content, response.answer)

C8_Witness == Scenario1 /\ o_pc = "done" /\ response.answer = "final answer"

\* the run of scenario 2: the first proposal call returned 2 tasks and no
\* later one returned any
Scenario2 == proposed.first = 2 /\ ~proposed.later

\* C9 as claimed: in scenario 2 exactly 3 objectives are created and spawned,
\* every one of them reaches Completed or Failed (its status is written by its
\* job only, so it is terminal when its job has ended), and the scheduling
\* loop is left only when no objective is Pending or InProgress.
C9_Scenario2 ==
    Scenario2 =>
        /\ Len(objectives) = 3
        /\ Len(tasks) = 3
        /\ \A t \in DOMAIN tasks :
              tasks[t].pc \in {"done", "raised"} =>
                  Terminal(objectives[tasks[t].objective])
        /\ o_pc \in {"answer", "done"} =>
              \A i \in DOMAIN objectives : Terminal(objectives[i])

C20_ProposalsAtQuiescence ==
    /\ [](o_pc = "detect" =>
            /\ Len(tasks) >= 1
            /\ tasks[1].objective = 1
            /\ ActiveCount = 0
            /\ \A t \in DOMAIN tasks : tasks[t].pc \in {"done", "raised"})
    /\ [][o_pc = "detect" =>
              /\ \A i \in DOMAIN objectives :
                     i \in DOMAIN objectives' /\ objectives'[i] = objectives[i]
              /\ \A t \in DOMAIN tasks :
                     t \in DOMAIN tasks' /\ tasks'[t] = tasks[t]]_vars

C20_Witness ==
    /\ o_pc = "detect"
    /\ proposal_calls = 1
    /\ Len(objectives) = 3
    /\ objectives[2].status = COMPLETED
    /\ objectives[3].status = FAILED
    /\ \A t \in DOMAIN tasks : tasks[t].pc = "done"

\* the jobs spawned for the objective at position i
JobsOf(i) == {t \in DOMAIN tasks : tasks[t].objective = i}

\* the job has not ended
Running(t) == tasks[t].pc \in {"spawned", "should_stop", "new_step"}

\* the step is not one of think(): it is left where it was
OrchestratorIdle ==
    /\ o_pc' = o_pc
    /\ response' = response
    /\ proposal_calls' = proposal_calls

\* C21: state.objectives only grows, and only by a step of think() taken
\* while no job is active; every objective has exactly one job, spawned in
\* the step that appended it; and an objective that exists is changed only
\* while its own job runs, by a step in which think() and every other job and
\* objective stay as they are: its knowledge only while its job is in a step
\* completion, its description never.
C21_Ownership ==
    /\ [](/\ Len(tasks) = Len(objectives)
          /\ \A i \in DOMAIN objectives : Cardinality(JobsOf(i)) = 1)
    /\ [][/\ Len(objectives') >= Len(objectives)
          /\ Len(objectives') > Len(objectives) =>
                /\ o_pc \in {"start", "detect"}
                /\ ActiveCount = 0
                /\ \A i \in DOMAIN objectives : objectives'[i] = objectives[i]
                /\ \A i \in DOMAIN objectives' \ DOMAIN objectives :
                       /\ objectives'[i].status = PENDING
                       /\ \A t \in JobsOf(i)' : tasks'[t].pc = "spawned"
          /\ \A i \in DOMAIN objectives :
                objectives'[i] # objectives[i] =>
                    /\ OrchestratorIdle
                    /\ objectives'[i].description = objectives[i].description
                    /\ \E t \in JobsOf(i) :
                           /\ Running(t)
                           /\ \A u \in DOMAIN tasks \ {t} : tasks'[u] = tasks[u]
                           /\ objectives'[i].knowledge # objectives[i].knowledge =>
                                  tasks[t].pc = "new_step" /\ tasks'[t] = tasks[t]
                    /\ \A j \in DOMAIN objectives \ {i} :
                           objectives'[j] = objectives[j]]_vars

C21_Witness ==
    /\ Len(objectives) = 3
    /\ tasks[2].pc = "new_step"
    /\ tasks[3].pc = "should_stop"
    /\ objectives[2].knowledge = <<"\n", "fact A">>
    /\ objectives[3].knowledge = <<"\n", "fact B">>
    /\ objectives[1].status = COMPLETED

\* the scheduling loop of think() has been left: _answer_user was called, or
\* think() raised
LoopLeft == o_pc \in {"answer", "done", "raised"}

\* C22 as claimed: once a CompletionException has ended the job of an
\* objective, the scheduling loop is eventually left (think() calls
\* _answer_user or raises), in every run in which what is awaited ends.
C22_LoopExits == (\E t \in DOMAIN tasks : tasks[t].pc = "raised") ~> LoopLeft

\* C23 as claimed: _answer_user is called only when every objective is
\* Completed or Failed: once the scheduling loop has been left by a call of
\* _answer_user, no objective is Pending or InProgress.
C23_SynthesisWhenAllTerminal ==
    answer_calls > 0 => \A i \in DOMAIN objectives : Terminal(objectives[i])

\* C24 as claimed: an objective that became Failed at MAX_STEPS raised
\* nothing (its job ended by returning) and aborted nothing: think() raises
\* only from its own calls, and every other objective runs to Completed or
\* Failed, so that no objective is Pending or InProgress once no job is left
\* to run.
C24_FailureDoesNotAbort ==
    \A i \in DOMAIN objectives :
        objectives[i].status = FAILED =>
            /\ Len(objectives[i].steps) = MAX_STEPS
            /\ \A t \in JobsOf(i) : tasks[t].pc = "done"
            /\ o_pc = "raised" =>
                  response.raised \in {"_detect_new_objectives", "_answer_user"}
            /\ ActiveCount = 0 =>
                  \A j \in DOMAIN objectives : Terminal(objectives[j])

\* the positions of the objectives whose status is Completed
CompletedOnes == {i \in DOMAIN objectives : objectives[i].status = COMPLETED}

\* C25: _answer_user is called once at most in a run, and it has been called
\* exactly when the scheduling loop has been left otherwise than by an
\* exception; the knowledge section of its prompt has one line per objective
\* whose status is Completed, made of its description and its knowledge, and
\* no other line.
C25_SynthesisContext ==
    /\ answer_calls <= 1
    /\ (answer_calls = 1) <=>
           \/ o_pc \in {"answer", "done"}
           \/ o_pc = "raised" /\ response.raised = "_answer_user"
    /\ answer_calls = 0 => answer_context = <<>>
    /\ answer_calls = 1 =>
           /\ Len(answer_context) = Cardinality(CompletedOnes)
           /\ \A i \in CompletedOnes :
                  \E k \in DOMAIN answer_context :
                      answer_context[k] =
                          <<objectives[i].description, ": ", objectives[i].knowledge>>
           /\ \A k \in DOMAIN answer_context :
                  \E i \in CompletedOnes :
                      /\ answer_context[k][1] = objectives[i].description
                      /\ answer_context[k][3] = objectives[i].knowledge

C25_Witness ==
    /\ o_pc = "done"
    /\ Len(objectives) = 3
    /\ objectives[1].status = COMPLETED
    /\ objectives[2].status = COMPLETED
    /\ objectives[2].knowledge = <<"\n", "fact A">>
    /\ objectives[3].status = FAILED
    /\ objectives[3].knowledge = <<"\n", "fact B">>
    /\ Len(answer_context) = 2

StatusChanges ==
    {<<PENDING, IN_PROGRESS>>, <<IN_PROGRESS, COMPLETED>>, <<IN_PROGRESS, FAILED>>}

\* C27: the status of an objective changes only from Pending to InProgress
\* and from InProgress to Completed or Failed; it is Pending exactly until
\* its job starts, so InProgress whenever the job awaits a model call, and
\* Completed or Failed when the job has returned; the steps are numbered in
\* the order they were made, a step is appended only to an objective that
\* is InProgress, one at a time, and nothing is appended to or removed from
\* the steps of a Completed or Failed objective.
C27_StatusOrder ==
    /\ [](\A t \in DOMAIN tasks :
             LET objective == objectives[tasks[t].objective]
             IN  /\ tasks[t].pc = "spawned" <=> objective.status = PENDING
                 /\ tasks[t].pc = "spawned" => objective.steps = <<>>
                 /\ tasks[t].pc \in {"should_stop", "new_step", "raised"} =>
                        objective.status = IN_PROGRESS
                 /\ tasks[t].pc = "done" => Terminal(objective)
                 /\ \A k \in DOMAIN objective.steps : objective.steps[k] = k)
    /\ [][\A i \in DOMAIN objectives :
              LET before == objectives[i]
                  after == objectives'[i]
              IN  /\ \/ after.status = before.status
                     \/ <<before.status, after.status>> \in StatusChanges
                  /\ \/ after.steps = before.steps
                     \/ /\ before.status = IN_PROGRESS
                        /\ after.steps = Append(before.steps, Len(before.steps) + 1)
                  /\ Terminal(before) =>
                         /\ after.status = before.status
                         /\ after.steps = before.steps]_vars

C27_Witness ==
    /\ Len(objectives) = 3
    /\ objectives[1].status = COMPLETED
    /\ Len(objectives[1].steps) = MIN_STEPS
    /\ objectives[2].status = FAILED
    /\ Len(objectives[2].steps) = MAX_STEPS
    /\ objectives[3].status = IN_PROGRESS
    /\ Len(objectives[3].steps) = 0
    /\ tasks[3].pc = "new_step"

\* the objective has the job t and the job is awaiting its step completion
InStepOf(i, t) == tasks[t].objective = i /\ tasks[t].pc = "new_step"

RunOver ==
    /\ o_pc = "done"
    /\ \A t \in DOMAIN tasks : tasks[t].pc = "done"

\* C29: when every call returns and no completion raises, a run of think()
\* ends: think() returns its response and every job has ended by then; a
\* return of _detect_new_objectives either adds an objective, which keeps
\* the objectives at MAX_OBJECTIVES at most, or is the last one, followed by
\* the final answer; and no objective gets more than MAX_STEPS steps.
C29_Terminates ==
    /\ <>RunOver
    /\ [](/\ Len(objectives) <= MAX_OBJECTIVES
          /\ \A i \in DOMAIN objectives : Len(objectives[i].steps) <= MAX_STEPS
          /\ o_pc \in {"answer", "done"} =>
                 \A t \in DOMAIN tasks : tasks[t].pc = "done")
    /\ [][o_pc = "detect" =>
             \/ /\ Len(objectives') > Len(objectives)
                /\ o_pc' = "poll"
             \/ o_pc' = "answer"]_vars

C29_Witness ==
    /\ RunOver
    /\ Len(objectives) = MAX_OBJECTIVES
    /\ objectives[MAX_OBJECTIVES].status = FAILED
    /\ Len(objectives[MAX_OBJECTIVES].steps) = MAX_STEPS
    /\ objectives[1].status = COMPLETED

\* C30 as claimed: a request invokes the model at most its initial retry
\* count + 2 times, and enters the tool branch at most once, also when the
\* model returns tool calls after the tools have been cleared.
C30_InvocationsBounded ==
    /\ invocations <= request0.retries_remaining + 2
    /\ tool_rounds <= 1

\* C31: when no job raises, _detect_new_objectives is awaited only while
\* every objective is Completed or Failed; a return of it that adds no
\* objective is followed by the final answer, at the cap and below it, and
\* no further proposal call is made; and think() does not get past its
\* scheduling loop without having made a proposal call.
C31_EmptyRoundIsLast ==
    /\ [](/\ o_pc = "detect" => \A i \in DOMAIN objectives : Terminal(objectives[i])
          /\ LoopLeft => proposal_calls >= 1)
    /\ [][/\ (o_pc = "detect" /\ Len(objectives') = Len(objectives)) =>
                 o_pc' \in {"answer", "raised"}
          /\ LoopLeft => (LoopLeft' /\ proposal_calls' = proposal_calls)]_vars

C31_Witness ==
    /\ o_pc = "answer"
    /\ proposal_calls = 1
    /\ proposed.first = 0
    /\ Len(objectives) = 1
    /\ objectives[1].status = COMPLETED
    /\ ~CapReached(objectives)

\* C32: the cache of a function decorated with lru_cache or lru_acache
\* never has more than maxsize entries, nor two entries of one key. A call
\* of the wrapper with a key that is in the cache does not call the wrapped
\* function, returns the value stored for the key, keeps the entries and
\* makes the key the one used last. What the wrapper stores is what it
\* returns. An entry leaves the cache only when a new key is stored in a
\* cache that has maxsize entries, and it is then the entry used least
\* recently.
C32_LruCache ==
    /\ [](/\ Len(cache) <= maxsize
          /\ \A i, j \in DOMAIN cache : cache[i].key = cache[j].key => i = j)
    /\ [][/\ (wrapper_calls' # wrapper_calls /\ KeyIn(cache, wrapper_calls'.key)) =>
                 LET key == wrapper_calls'.key
                 IN  /\ func_calls' = func_calls
                     /\ awaited' = awaited
                     /\ last_return' = [call |-> wrapper_calls'.made, key |-> key,
                                        value |-> Stored(cache, key)]
                     /\ CachedKeys(cache') = CachedKeys(cache)
                     /\ \A k \in CachedKeys(cache) : Stored(cache', k) = Stored(cache, k)
                     /\ cache'[Len(cache')].key = key
                     /\ \A k \in Keys \ {key} : last_used'[k] < last_used'[key]
          /\ (last_return' # last_return /\ maxsize > 0) =>
                 /\ KeyIn(cache', last_return'.key)
                 /\ Stored(cache', last_return'.key) = last_return'.value
          /\ \A gone \in CachedKeys(cache) \ CachedKeys(cache') :
                 /\ last_return' # last_return
                 /\ ~KeyIn(cache, last_return'.key)
                 /\ Len(cache) = maxsize
                 /\ CachedKeys(cache') = (CachedKeys(cache) \ {gone}) \cup {last_return'.key}
                 /\ \A k \in CachedKeys(cache) : last_used[gone] <= last_used[k]]_vars

C32_Witness ==
    /\ decorated = "lru_acache"
    /\ maxsize = 2
    /\ wrapper_calls = [made |-> 4, key |-> "c"]
    /\ func_calls = 3
    /\ awaited = {}
    /\ cache = <<[key |-> "a", value |-> 1], [key |-> "c", value |-> 3]>>
    /\ last_used["b"] > 0

====
